---------------------------- MODULE Spec2Model ----------------------------
(* Model of src/src/aberth.rs: Horner evaluation, the initial guess, and    *)
(* the two Aberth drivers (aberth: sequential, in place; aberth_mt: one     *)
(* rayon task per root over a snapshot).                                    *)
(*                                                                          *)
(* Numbers.  An f64 is an integer number of grid units.  + - * are exact,   *)
(* as they are in f64 on integers of this size; a quotient is rounded to    *)
(* the nearest grid point, where f64 rounds to the nearest representable    *)
(* value; a division by exactly zero gives NaN in both components, as the   *)
(* Complex division (a * conj(b)) / |b|^2 does with 0/0.  NaN is a value of *)
(* its own, with the IEEE comparison (every < with a NaN is false) and      *)
(* f64::max (a NaN operand is ignored).  TLC reports any integer overflow,  *)
(* so no run of the model leaves the exact range.                           *)
(*                                                                          *)
(* In the iterators the unit of a root, a residual and a tolerance is       *)
(* 2^-50 (8.9e-16): 0 and 1 unit are the magnitudes of the grid below       *)
(* 1e-15, 2 units (1.8e-15) is the first one above, so `tol_i < 1e-15` is   *)
(* `tol_i < 2` units.  A polynomial of degree d with model coefficients c   *)
(* stands for the f64 polynomial with coefficients c[k] * 2^(50*(d-1-k)),   *)
(* k = 0..d, whose value at Z units is the model's value in units; the      *)
(* scaling is by powers of two, which f64 applies exactly.  The Horner      *)
(* calls have no threshold and read their numbers as plain integers.        *)
EXTENDS Integers, Sequences, FiniteSets, TLC

VARIABLES
  op,        \* the public function that was called
  coeffs,    \* coeffs: &[f64], highest degree first
  zval,      \* the evaluation point of horner_eval_f / horner_eval_c
  opts,      \* options: [max_iters, tol]
  zs,        \* zs: &mut Vec<Complex<f64>>, the caller's root set
  zsc,       \* aberth_mt: the snapshot copied at the top of a pass
  converged, \* converged: Vec<bool>
  pb,        \* pb: the derivative coefficients
  niter,     \* the loop variable of `for niter in 0..options.max_iters`
  idx,       \* aberth: the loop variable of `for i in 0..m_rs` (1-based here)
  rx,        \* aberth: the residuals pushed in this pass
  pending,   \* aberth_mt: the indices whose task has not run yet
  acc,       \* aberth_mt: the running value of the max-reduction
  tol,       \* the pass tolerance
  pc,        \* position in the called function
  outcome,   \* what the call returned, or that it panicked
  zs0,       \* history: zs as the caller passed it
  passes,    \* history: passes started in this call
  tols,      \* history: the pass tolerance of every finished pass
  zsPrev,    \* history: zs at the top of the current pass
  convPrev,  \* history: converged at the top of the current pass
  resid      \* history: index -> the residual tol_i its job evaluated this pass

vars == << zs0, op, coeffs, zval, opts, zs, zsc, converged, pb, niter, idx, rx,
           pending, acc, tol, pc, outcome, passes, tols, zsPrev, convPrev,
           resid >>

----------------------------------------------------------------------------
(* Bounds and input alphabets                                               *)

\* Largest options.max_iters tried.
MaxIters == 2

\* Degrees of the polynomials handed to the iterators.
Degrees == {1, 2}

\* Leading and remaining coefficients of those polynomials.
LeadVals == {1, 2}
CoefVals == {-2, -1, 0, 1}

\* options.tol, in grid units.
TolVals == {0, 1, 3}

\* The doc-test polynomial of horner_eval_f / horner_eval_c.
DocCoeffs == << 10, 34, 75, 94, 150, 94, 75, 34, 10 >>

\* Coordinates of the evaluation points of the Horner calls.
PointVals == -2 .. 2

----------------------------------------------------------------------------
(* f64 and Complex<f64>                                                     *)

\* f64 NaN, for the residuals and tolerances (which are never negative).
NaN == -1

Abs(x) == IF x < 0 THEN -x ELSE x

\* Complex::new(re, im)
C(re, im) == [nan |-> FALSE, re |-> re, im |-> im]

\* A Complex whose components are NaN.
CNaN == [nan |-> TRUE, re |-> 0, im |-> 0]

CAdd(a, b) ==
  IF a.nan \/ b.nan THEN CNaN ELSE C(a.re + b.re, a.im + b.im)

CSub(a, b) ==
  IF a.nan \/ b.nan THEN CNaN ELSE C(a.re - b.re, a.im - b.im)

CMul(a, b) ==
  IF a.nan \/ b.nan THEN CNaN
  ELSE C(a.re * b.re - a.im * b.im, a.re * b.im + a.im * b.re)

\* n / d for d > 0, rounded to the nearest grid point.
RoundDiv(n, d) == (2 * n + d) \div (2 * d)

\* Complex division: (a * conj(b)) / |b|^2, componentwise; 0/0 is NaN.
CDiv(a, b) ==
  IF a.nan \/ b.nan THEN CNaN
  ELSE LET norm_sqr == b.re * b.re + b.im * b.im
       IN  IF norm_sqr = 0 THEN CNaN
           ELSE C(RoundDiv(a.re * b.re + a.im * b.im, norm_sqr),
                  RoundDiv(a.im * b.re - a.re * b.im, norm_sqr))

\* Complex::l1_norm: |re| + |im|
l1_norm(z) == IF z.nan THEN NaN ELSE Abs(z.re) + Abs(z.im)

\* a < b on f64: false whenever an operand is NaN.
FLt(a, b) == a # NaN /\ b # NaN /\ a < b

\* f64::max: a NaN operand is ignored.
FMax(x, y) == IF x = NaN THEN y ELSE IF y = NaN THEN x ELSE IF x < y THEN y ELSE x

\* The 1e-15 of `tol_i < 1e-15`, in units of 2^-50: the smallest magnitude
\* of the grid that is not below 1e-15.
MICRO_TOL == 2

----------------------------------------------------------------------------
(* Horner evaluation                                                        *)

\* A reduction step with the product on the wrong operand.
HornerStepFSwapped(res, x, coeff) == res + x * coeff

\* One step of the reduction of horner_eval_f: |res, coeff| res * zval + coeff
HornerStepF(res, x, coeff) == res * x + coeff

\* One step of the reduction of horner_eval_c.
HornerStepC(res, z, coeff) == CAdd(CMul(res, z), coeff)

RECURSIVE ReduceF(_, _, _)
\* The reduction over the first k coefficients (k >= 1): the first item is
\* the initial accumulator.
ReduceF(cs, x, k) ==
  IF k = 1 THEN cs[1] ELSE HornerStepF(ReduceF(cs, x, k - 1), x, cs[k])

RECURSIVE ReduceC(_, _, _)
ReduceC(cs, z, k) ==
  IF k = 1 THEN C(cs[1], 0)
  ELSE HornerStepC(ReduceC(cs, z, k - 1), z, C(cs[k], 0))

\* reduce(..) is None exactly on an empty slice; unwrap() then panics.
ReduceIsNone(cs) == Len(cs) = 0

\* horner_eval_f(coeffs, zval), for a non-empty slice.
horner_eval_f(cs, x) == ReduceF(cs, x, Len(cs))

\* horner_eval_c(coeffs, zval), for a non-empty slice.
horner_eval_c(cs, z) == ReduceC(cs, z, Len(cs))

----------------------------------------------------------------------------
(* Results                                                                  *)

NoOutcome == [kind |-> "none", n |-> 0, flag |-> FALSE, val |-> C(0, 0), why |-> ""]

\* A panic of the call, with its message.
Panic(why) == [NoOutcome EXCEPT !.kind = "panic", !.why = why]

\* The f64 / Complex<f64> a Horner call returns.
Value(v) == [NoOutcome EXCEPT !.kind = "value", !.val = v]

\* The Vec of n estimates initial_aberth returns.
Roots(n) == [NoOutcome EXCEPT !.kind = "roots", !.n = n]

\* The (usize, bool) an iterator returns.
Pair(n, flag) == [NoOutcome EXCEPT !.kind = "pair", !.n = n, !.flag = flag]

\* `coeffs.len() - 1` on an empty slice: a debug build panics on the
\* subtraction; a release build wraps to usize::MAX and panics at the first
\* use of it, `then`.
UnderflowPanic(build, then) ==
  IF build = "debug" THEN Panic("attempt to subtract with overflow") ELSE Panic(then)

Builds == {"debug", "release"}

\* reduce(..).unwrap() on an empty slice.
UnwrapNone == Panic("unwrap on a None value")


----------------------------------------------------------------------------
(* The Aberth step                                                          *)

m_rs == Len(zs)

\* degree = coeffs.len() - 1, for a non-empty slice.
degree == Len(coeffs) - 1

\* The derivative coefficient with the 1-based index taken for the 0-based.
PbEntryOffByOne(cs, k) == cs[k] * ((Len(cs) - 1) - k)

\* pb[i] = coeffs[i] * (degree - i) for the 0-based i = k - 1.
PbEntry(cs, k) == cs[k] * ((Len(cs) - 1) - (k - 1))

\* The derivative coefficients: vec![0.0; degree] filled by the loop.
Derivative(cs) == [k \in 1 .. (Len(cs) - 1) |-> PbEntry(cs, k)]

RECURSIVE Pp1(_, _, _, _, _, _)
\* pp1 after the terms of the indices 1..j have been subtracted from `from`
\* (the index i itself is left out): pp1 -= pp / (zi - zj)
Pp1(from, pp, zi, others, i, j) ==
  IF j = 0 THEN from
  ELSE LET prev == Pp1(from, pp, zi, others, i, j - 1)
       IN  IF j = i THEN prev
           ELSE CSub(prev, CDiv(pp, CSub(zi, others[j])))

\* zi - pp / pp1, with the other roots read from `others`.
NewRoot(cs, dcs, zi, others, i) ==
  LET pp  == horner_eval_c(cs, zi)
      pp1 == Pp1(horner_eval_c(dcs, zi), pp, zi, others, i, Len(others))
  IN  CSub(zi, CDiv(pp, pp1))

\* aberth reading the other roots from a copy of the previous pass.
SeqReadSnapshot(j) == zsPrev[j]

\* aberth reads the other roots from zs itself: zs.iter()
SeqRead(j) == zs[j]

\* aberth_mt reading the other roots from the live root set.
MtReadLive(j) == zs[j]

\* aberth_mt reads the other roots from the snapshot: zsc.iter()
MtRead(j) == zsc[j]

\* The fold keeping the last residual instead of the largest.
FoldTolLast(results, k) == IF k = 0 THEN 0 ELSE results[k]

RECURSIVE FoldTol(_, _)
\* `for result in rx.iter() { if tol < *result { tol = *result } }` over the
\* first k residuals, from tol = 0.0
FoldTol(results, k) ==
  IF k = 0 THEN 0
  ELSE LET t == FoldTol(results, k - 1)
       IN  IF FLt(t, results[k]) THEN results[k] ELSE t

\* What one job of aberth pushes to rx for a residual.
SeqPushed(tol_i) ==
  IF FLt(tol_i, MICRO_TOL) THEN << tol_i, tol_i >> ELSE << tol_i >>

\* What one task of aberth_mt hands to the reduction: None or Some(tol_i).
MtYield(tol_i) == IF FLt(tol_i, MICRO_TOL) THEN << >> ELSE << tol_i >>

\* `if tol < tol_i { tol = tol_i }` after the reduction, from tol = 0.0
MtTol(reduced) == IF FLt(0, reduced) THEN reduced ELSE 0

\* The stopping test with <= for <.
StopInclusive(t, o) == FLt(t, o.tol) \/ (t # NaN /\ t = o.tol)

\* The stopping test of both iterators: tol < options.tol
Stop(t, o) == FLt(t, o.tol)

\* The count of passes run, for the loop variable.
ReturnedCountPlusOne(n) == n + 1

\* The count returned with `true`.
ReturnedCount(n) == n

----------------------------------------------------------------------------
(* Initial states: one call of one public function                          *)

ComplexPoints == {C(re, im) : re \in PointVals, im \in PointVals}

\* Root estimates handed to the iterators.
ZVals == {C(0, 0), C(1, 0), C(-1, 0), C(0, 1), C(0, -1), C(1, 1)}

SeqsOf(S, n) == [1 .. n -> S]

\* Coefficient slices of the Horner calls: every length from 0 to 3, and the
\* doc-test polynomial.
HornerCoeffs ==
  (UNION {SeqsOf(CoefVals, n) : n \in 0 .. 3}) \cup {DocCoeffs}

\* Polynomials of degree d with a non-zero leading coefficient.
Polys(d) ==
  {<< a >> \o r : a \in LeadVals, r \in SeqsOf(CoefVals, d)}

\* Cubics: x^3 - x, x^3 - 1, x^3 - 2x^2 + x, 2x^3 + x.
Cubics ==
  {<< 1, 0, -1, 0 >>, << 1, 0, 0, -1 >>, << 1, -2, 1, 0 >>, << 2, 0, 1, 0 >>}

\* Slices of length 0 or 1.
ShortCoeffs == {<< >>} \cup {<< a >> : a \in {0, 1}}

OptionSet == [max_iters : 0 .. MaxIters, tol : TolVals]

Idle ==
  /\ zsc = << >> /\ converged = << >> /\ pb = << >>
  /\ niter = 0 /\ idx = 0 /\ rx = << >> /\ pending = {} /\ acc = 0 /\ tol = 0
  /\ pc = "start" /\ outcome = NoOutcome
  /\ passes = 0 /\ tols = << >> /\ zsPrev = << >> /\ convPrev = << >>
  /\ resid = << >>
  /\ zs0 = zs

InitHorner ==
  /\ op \in {"horner_eval_f", "horner_eval_c"}
  /\ coeffs \in HornerCoeffs
  /\ zval \in IF op = "horner_eval_f" THEN {C(x, 0) : x \in PointVals}
              ELSE ComplexPoints
  /\ opts = [max_iters |-> 0, tol |-> 0]
  /\ zs = << >>

InitGuess ==
  /\ op = "initial_aberth"
  /\ coeffs \in ShortCoeffs \cup Polys(1) \cup Polys(2)
  /\ zval = C(0, 0)
  /\ opts = [max_iters |-> 0, tol |-> 0]
  /\ zs = << >>

InitIterate ==
  /\ op \in {"aberth", "aberth_mt"}
  /\ zval = C(0, 0)
  /\ opts \in OptionSet
  /\ \/ \E d \in Degrees : coeffs \in Polys(d) /\ zs \in SeqsOf(ZVals, d)
     \/ coeffs \in Cubics /\ zs \in SeqsOf(ZVals, 3)
     \/ coeffs \in ShortCoeffs /\ zs \in SeqsOf(ZVals, 0) \cup SeqsOf(ZVals, 1)

Init == (InitHorner \/ InitGuess \/ InitIterate) /\ Idle

----------------------------------------------------------------------------
(* horner_eval_f, horner_eval_c, initial_aberth                             *)

Return(o) == outcome' = o /\ pc' = "done"

Call_horner_eval_f ==
  /\ pc = "start" /\ op = "horner_eval_f"
  /\ Return(IF ReduceIsNone(coeffs)
            THEN UnwrapNone
            ELSE Value(C(horner_eval_f(coeffs, zval.re), 0)))
  /\ UNCHANGED << zs0, op, coeffs, zval, opts, zs, zsc, converged, pb, niter, idx,
                  rx, pending, acc, tol, passes, tols, zsPrev, convPrev, resid >>

Call_horner_eval_c ==
  /\ pc = "start" /\ op = "horner_eval_c"
  /\ Return(IF ReduceIsNone(coeffs)
            THEN UnwrapNone
            ELSE Value(horner_eval_c(coeffs, zval)))
  /\ UNCHANGED << zs0, op, coeffs, zval, opts, zs, zsc, converged, pb, niter, idx,
                  rx, pending, acc, tol, passes, tols, zsPrev, convPrev, resid >>

\* initial_aberth: the length of the result is modelled, not the estimates
\* (powf, cos and sin have no counterpart on the grid).
Call_initial_aberth ==
  /\ pc = "start" /\ op = "initial_aberth"
  /\ \E build \in Builds :
       Return(IF Len(coeffs) = 0
              THEN UnderflowPanic(build, "index out of bounds")
              ELSE IF Len(coeffs) = 1
                   THEN Panic("index out of bounds")
                   ELSE Roots(degree))
  /\ UNCHANGED << zs0, op, coeffs, zval, opts, zs, zsc, converged, pb, niter, idx,
                  rx, pending, acc, tol, passes, tols, zsPrev, convPrev, resid >>

----------------------------------------------------------------------------
(* aberth and aberth_mt                                                     *)

Iterating == op \in {"aberth", "aberth_mt"}

\* The other roots as a job of aberth / a task of aberth_mt sees them.
SeqView == [j \in 1 .. m_rs |-> SeqRead(j)]
MtView == [j \in 1 .. m_rs |-> MtRead(j)]

\* Entry of both iterators, up to the loop over niter.
Enter ==
  /\ pc = "start" /\ Iterating
  /\ IF Len(coeffs) = 0
     THEN /\ \E build \in Builds :
               Return(UnderflowPanic(build, "capacity overflow"))
          /\ UNCHANGED << converged, pb, zsc, niter >>
     ELSE /\ converged' = [i \in 1 .. m_rs |-> FALSE]
          /\ pb' = Derivative(coeffs)
          /\ zsc' = IF op = "aberth_mt" THEN [i \in 1 .. m_rs |-> C(0, 0)]
                    ELSE zsc
          /\ niter' = 0
          /\ pc' = "loop"
          /\ UNCHANGED outcome
  /\ UNCHANGED << zs0, op, coeffs, zval, opts, zs, idx, rx, pending, acc, tol,
                  passes, tols, zsPrev, convPrev, resid >>

\* `for niter in 0..options.max_iters`: the top of a pass, or the return
\* after the last one.
LoopHead ==
  /\ pc = "loop"
  /\ IF niter < opts.max_iters
     THEN /\ tol' = 0
          /\ passes' = passes + 1
          /\ zsPrev' = zs
          /\ convPrev' = converged
          /\ resid' = << >>
          /\ IF op = "aberth"
             THEN /\ rx' = << >> /\ idx' = 1 /\ pc' = "job"
                  /\ UNCHANGED << zsc, pending, acc >>
             ELSE /\ zsc' = zs
                  /\ acc' = 0
                  /\ pending' = {i \in 1 .. m_rs : ~converged[i]}
                  /\ pc' = "tasks"
                  /\ UNCHANGED << rx, idx >>
          /\ UNCHANGED outcome
     ELSE /\ Return(Pair(opts.max_iters, FALSE))
          /\ UNCHANGED << tol, passes, zsPrev, convPrev, resid, rx, idx, zsc,
                          pending, acc >>
  /\ UNCHANGED << zs0, op, coeffs, zval, opts, zs, converged, pb, niter, tols >>

\* aberth: `if converged[i] { continue; }`
SeqSkip ==
  /\ pc = "job" /\ idx <= m_rs /\ converged[idx]
  /\ idx' = idx + 1
  /\ UNCHANGED << zs0, op, coeffs, zval, opts, zs, zsc, converged, pb, niter, rx,
                  pending, acc, tol, pc, outcome, passes, tols, zsPrev,
                  convPrev, resid >>

\* aberth, first half of the job: the residual and the convergence flag.
SeqEval ==
  /\ pc = "job" /\ idx <= m_rs /\ ~converged[idx]
  /\ LET pp    == horner_eval_c(coeffs, zs[idx])
         tol_i == l1_norm(pp)
     IN  /\ resid' = resid @@ (idx :> tol_i)
         /\ IF FLt(tol_i, MICRO_TOL)
            THEN /\ converged' = [converged EXCEPT ![idx] = TRUE]
                 /\ rx' = Append(rx, tol_i)
            ELSE UNCHANGED << converged, rx >>
  /\ pc' = "update"
  /\ UNCHANGED << zs0, op, coeffs, zval, opts, zs, zsc, pb, niter, idx, pending,
                  acc, tol, outcome, passes, tols, zsPrev, convPrev >>

\* aberth, second half of the job: the correction, written in place.
SeqUpdate ==
  /\ pc = "update"
  /\ IF ReduceIsNone(pb)
     THEN /\ Return(UnwrapNone)
          /\ UNCHANGED << zs, rx, idx >>
     ELSE /\ zs' = [zs EXCEPT ![idx] = NewRoot(coeffs, pb, zs[idx], SeqView, idx)]
          /\ rx' = Append(rx, resid[idx])
          /\ idx' = idx + 1
          /\ pc' = "job"
          /\ UNCHANGED outcome
  /\ UNCHANGED << zs0, op, coeffs, zval, opts, zsc, converged, pb, niter, pending,
                  acc, tol, passes, tols, zsPrev, convPrev, resid >>

\* aberth: the maximum over rx, after the loop over i.
SeqFold ==
  /\ pc = "job" /\ idx > m_rs
  /\ tol' = FoldTol(rx, Len(rx))
  /\ tols' = Append(tols, tol')
  /\ pc' = "check"
  /\ UNCHANGED << zs0, op, coeffs, zval, opts, zs, zsc, converged, pb, niter, idx,
                  rx, pending, acc, outcome, passes, zsPrev, convPrev, resid >>

\* aberth_mt: the task of index i, run in any order among the pending ones.
MtTask(i) ==
  /\ pc = "tasks" /\ i \in pending
  /\ LET zi    == zs[i]
         pp    == horner_eval_c(coeffs, zi)
         tol_i == l1_norm(pp)
         yield == MtYield(tol_i)
     IN  /\ resid' = resid @@ (i :> tol_i)
         /\ IF yield = << >>
            THEN /\ converged' = [converged EXCEPT ![i] = TRUE]
                 /\ pending' = pending \ {i}
                 /\ UNCHANGED << zs, acc, pc, outcome >>
            ELSE IF ReduceIsNone(pb)
                 THEN /\ Return(UnwrapNone)
                      /\ UNCHANGED << zs, converged, acc, pending >>
                 ELSE /\ zs' = [zs EXCEPT ![i] = NewRoot(coeffs, pb, zi, MtView, i)]
                      /\ acc' = FMax(acc, yield[1])
                      /\ pending' = pending \ {i}
                      /\ UNCHANGED << converged, pc, outcome >>
  /\ UNCHANGED << zs0, op, coeffs, zval, opts, zsc, pb, niter, idx, rx, tol,
                  passes, tols, zsPrev, convPrev >>

\* aberth_mt: the reduction has joined every task of the pass.
MtJoin ==
  /\ pc = "tasks" /\ pending = {}
  /\ tol' = MtTol(acc)
  /\ tols' = Append(tols, tol')
  /\ pc' = "check"
  /\ UNCHANGED << zs0, op, coeffs, zval, opts, zs, zsc, converged, pb, niter, idx,
                  rx, pending, acc, outcome, passes, zsPrev, convPrev, resid >>

\* Both: `if tol < options.tol { return (niter, true); }`
Check ==
  /\ pc = "check"
  /\ IF Stop(tol, opts)
     THEN /\ Return(Pair(ReturnedCount(niter), TRUE))
          /\ UNCHANGED niter
     ELSE /\ niter' = niter + 1
          /\ pc' = "loop"
          /\ UNCHANGED outcome
  /\ UNCHANGED << zs0, op, coeffs, zval, opts, zs, zsc, converged, pb, idx, rx,
                  pending, acc, tol, passes, tols, zsPrev, convPrev, resid >>

Next ==
  \/ Call_horner_eval_f
  \/ Call_horner_eval_c
  \/ Call_initial_aberth
  \/ Enter
  \/ LoopHead
  \/ SeqSkip
  \/ SeqEval
  \/ SeqUpdate
  \/ SeqFold
  \/ \E i \in 1 .. m_rs : MtTask(i)
  \/ MtJoin
  \/ Check

Spec == Init /\ [][Next]_vars

Done == pc = "done"

----------------------------------------------------------------------------
(* Claims                                                                   *)

\* The input the iterators are specified for: degree >= 1, one estimate per
\* root.
ValidInput == Len(coeffs) >= 2 /\ Len(zs0) = Len(coeffs) - 1

\* The call returned an (iterations, converged) pair.
Returned == Done /\ Iterating /\ outcome.kind = "pair"

\* C1 (as claimed): a call with a coefficient slice of length 0 or 1 ends in
\* an explicit error result, never in a panic.
C1_ShortInputIsAnError ==
  (Done /\ Len(coeffs) < 2) => outcome.kind = "error"

\* C2 (as claimed): the returned count is the number of passes executed in
\* the call, whether the flag is true or false.
C2_CountIsPassesExecuted ==
  (Returned /\ ValidInput) => outcome.n = passes

\* C2 (amended): with the flag true the count is the zero-based index of the
\* pass that met the tolerance, one less than the passes executed; with the
\* flag false it is max_iters, the number of passes executed.
C2_CountIsPassIndex ==
  Returned =>
    /\ outcome.flag => outcome.n = passes - 1
    /\ ~outcome.flag => (outcome.n = passes /\ outcome.n = opts.max_iters)

\* C2 witness: a call that met the tolerance in its second pass.
C2_Witness ==
  Returned /\ outcome.flag /\ passes = 2 /\ outcome.n = 1

\* The residual of root i at the top of the current pass.
ResidualPrev(i) == l1_norm(horner_eval_c(coeffs, zsPrev[i]))

\* The estimate of root i after one whole pass of aberth_mt from zsPrev: a
\* root that was converged, or converges now, keeps its value; every other
\* root is corrected against the values of the previous pass.
JacobiRoot(i) ==
  IF convPrev[i] \/ FLt(ResidualPrev(i), MICRO_TOL) THEN zsPrev[i]
  ELSE NewRoot(coeffs, pb, zsPrev[i], zsPrev, i)

\* The other roots as the job of index i of aberth must see them: this
\* pass's values below i, the previous pass's values from i on.
GaussSeidelView(i) ==
  [j \in 1 .. m_rs |-> IF j < i THEN zs[j] ELSE zsPrev[j]]

\* The estimate of root i after its job of the current pass of aberth.
GaussSeidelRoot(i) ==
  IF convPrev[i] THEN zsPrev[i]
  ELSE NewRoot(coeffs, pb, zsPrev[i], GaussSeidelView(i), i)

\* The root set a whole pass leaves.
PassResult ==
  [i \in 1 .. m_rs |->
     IF op = "aberth" THEN GaussSeidelRoot(i) ELSE JacobiRoot(i)]

\* Some finished pass had a pass tolerance strictly below options.tol.
SomePassBelowTol == \E k \in 1 .. Len(tols) : FLt(tols[k], opts.tol)

\* What C3 says of every state of a call.
BudgetAndExhaustion ==
  (Iterating /\ ValidInput) =>
    /\ passes <= opts.max_iters
    /\ Len(tols) <= passes
    /\ Returned =>
         /\ (outcome = Pair(opts.max_iters, FALSE)) <=> ~SomePassBelowTol
         /\ ~outcome.flag =>
              /\ passes = opts.max_iters /\ Len(tols) = opts.max_iters
              /\ passes > 0 => zs = PassResult

\* An upper bound on the steps one pass takes: the top of the pass, two
\* steps per root, the maximum, the stopping test.
PassCost == 2 * m_rs + 4

\* The steps left from the top of the pass with loop variable n.
StepsFromLoop(n) == PassCost * (opts.max_iters - n) + 1

\* A bound on the steps left in the call, from its position.
StepsLeft ==
  CASE pc = "done"   -> 0
    [] pc = "start"  -> StepsFromLoop(0) + 1
    [] pc = "loop"   -> StepsFromLoop(niter)
    [] pc = "job"    -> StepsFromLoop(niter + 1) + 2 + 2 * (m_rs + 1 - idx)
    [] pc = "update" -> StepsFromLoop(niter + 1) + 1 + 2 * (m_rs + 1 - idx)
    [] pc = "tasks"  -> StepsFromLoop(niter + 1) + 2 + Cardinality(pending)
    [] pc = "check"  -> StepsFromLoop(niter + 1) + 1

\* Before the return some step can always be taken: each position has a
\* step for every value its loop variables can hold.
NeverStuck ==
  /\ pc \in {"start", "loop", "job", "update", "tasks", "check", "done"}
  /\ niter <= opts.max_iters
  /\ pc = "job" => (idx \in 1 .. m_rs + 1 /\ DOMAIN converged = 1 .. m_rs)
  /\ pc = "update" => (idx \in 1 .. m_rs /\ idx \in DOMAIN resid)
  /\ pc = "tasks" => pending \subseteq 1 .. m_rs
  /\ pc = "check" => niter < opts.max_iters

\* C3: for every max_iters >= 0 the iterators terminate (every step lowers
\* a bound on the steps left, and only the return has no step), having run
\* at most max_iters passes; they return (max_iters, false) exactly when no
\* pass had a tolerance strictly below tol, and then all max_iters passes
\* ran and zs is what the last of them produced.
C3_TerminatesWithinBudget ==
  /\ []BudgetAndExhaustion
  /\ []NeverStuck
  /\ [][StepsLeft' < StepsLeft /\ StepsLeft' >= 0]_vars

\* C3 witness: the budget ran out after two passes that changed the roots.
C3_Witness ==
  /\ Returned /\ ValidInput /\ outcome = Pair(2, FALSE)
  /\ Len(tols) = 2 /\ zs # zsPrev /\ zsPrev # zs0

\* Every root of the set the caller passed has a residual below the
\* micro-tolerance.
AllBelowMicroAtEntry ==
  \A i \in 1 .. Len(zs0) :
    FLt(l1_norm(horner_eval_c(coeffs, zs0[i])), MICRO_TOL)

\* C4 (as claimed): a call on a root set whose residuals are all below the
\* micro-tolerance returns true with a count of 0 or 1, for every
\* max_iters > 0 and every tol >= 0.
C4_ConvergedSetReturnsTrue ==
  (Returned /\ ValidInput /\ AllBelowMicroAtEntry /\ opts.max_iters > 0) =>
    (outcome.flag /\ outcome.n \in {0, 1})

\* C5 (as claimed): a flag that is true stays true, and the root it freezes
\* is not written again.
C5_FrozenOnceConverged ==
  [][\A i \in DOMAIN converged :
       converged[i] => (converged'[i] /\ zs'[i] = zs[i])]_vars

\* The maximum of a set of residuals, 0.0 for none: what a max-reduction
\* from 0.0 gives in any order.
MaxOf(S) == IF S = {} THEN 0 ELSE CHOOSE m \in S : \A x \in S : x <= m

\* The residuals the tasks of the current pass hand to the reduction, NaN
\* aside.
YieldedPrev ==
  {ResidualPrev(i) : i \in {j \in 1 .. m_rs : ~convPrev[j]}}
    \ ({NaN} \cup 0 .. (MICRO_TOL - 1))

RECURSIVE Pow(_, _)
\* x^n
Pow(x, n) == IF n = 0 THEN 1 ELSE x * Pow(x, n - 1)

RECURSIVE CPow(_, _)
\* z^n
CPow(z, n) == IF n = 0 THEN C(1, 0) ELSE CMul(z, CPow(z, n - 1))

RECURSIVE PowerSum(_, _, _)
\* The sum of cs[i] * x^(Len(cs) - i) over the 1-based i = 1..k.
PowerSum(cs, x, k) ==
  IF k = 0 THEN 0
  ELSE PowerSum(cs, x, k - 1) + cs[k] * Pow(x, Len(cs) - k)

RECURSIVE CPowerSum(_, _, _)
CPowerSum(cs, z, k) ==
  IF k = 0 THEN C(0, 0)
  ELSE CAdd(CPowerSum(cs, z, k - 1),
            CMul(C(cs[k], 0), CPow(z, Len(cs) - k)))

\* C7: for a non-empty coefficient slice, highest degree first, the Horner
\* calls return the sum of c[i] * x^(n-1-i), horner_eval_c with the
\* coefficients lifted to complex; the doc-test polynomial gives 18250 at 2
\* and (6080, 9120) at (1, 2).
C7_HornerIsThePowerSum ==
  (Done /\ Len(coeffs) >= 1) =>
    /\ op = "horner_eval_f" =>
         /\ outcome = Value(C(PowerSum(coeffs, zval.re, Len(coeffs)), 0))
         /\ (coeffs = DocCoeffs /\ zval = C(2, 0)) =>
              outcome.val = C(18250, 0)
    /\ op = "horner_eval_c" =>
         /\ outcome = Value(CPowerSum(coeffs, zval, Len(coeffs)))
         /\ (coeffs = DocCoeffs /\ zval = C(1, 2)) =>
              outcome.val = C(6080, 9120)

\* C7 witness: the complex doc test has run.
C7_Witness ==
  /\ Done /\ op = "horner_eval_c" /\ coeffs = DocCoeffs /\ zval = C(1, 2)
  /\ outcome.kind = "value"

\* The roots a job or task evaluated in the current pass, in index order.
Evaluated == {i \in 1 .. m_rs : i \in DOMAIN resid}

RECURSIVE PushedUpTo(_)
\* What the jobs of aberth push to rx for the residuals of the roots 1..k.
PushedUpTo(k) ==
  IF k = 0 THEN << >>
  ELSE IF k \in Evaluated THEN PushedUpTo(k - 1) \o SeqPushed(resid[k])
       ELSE PushedUpTo(k - 1)

RECURSIVE ReducedUpTo(_)
\* What the reduction of aberth_mt makes of the residuals of the roots 1..k.
ReducedUpTo(k) ==
  IF k = 0 THEN 0
  ELSE IF k \in Evaluated /\ MtYield(resid[k]) # << >>
       THEN FMax(ReducedUpTo(k - 1), resid[k])
       ELSE ReducedUpTo(k - 1)

\* The pass tolerance aberth / aberth_mt computes from the residuals of the
\* current pass.
SeqTolOf == FoldTol(PushedUpTo(m_rs), Len(PushedUpTo(m_rs)))
MtTolOf == MtTol(ReducedUpTo(m_rs))

\* Some root of the pass has a number as residual that is not below the
\* micro-tolerance.
SomeResidualNotBelowMicro ==
  \E i \in Evaluated : resid[i] # NaN /\ resid[i] >= MICRO_TOL

\* The largest residual of the pass that is below the micro-tolerance.
LargestBelowMicro ==
  MaxOf({resid[i] : i \in Evaluated} \cap 0 .. (MICRO_TOL - 1))

\* C8 (as claimed): on the same residuals aberth and aberth_mt compare the
\* same pass tolerance with tol, so they take the same decision.
C8_SamePassTolerance ==
  (pc = "check" /\ ValidInput) =>
    /\ SeqTolOf = MtTolOf
    /\ \A t \in TolVals :
         Stop(SeqTolOf, [opts EXCEPT !.tol = t])
           = Stop(MtTolOf, [opts EXCEPT !.tol = t])

\* C8 (amended): both stop on `pass tolerance < tol`; on the same residuals
\* the two pass tolerances are the same maximum whenever some root of the
\* pass has a residual of at least 1e-15; when every evaluated root is below
\* 1e-15 (or NaN), aberth's tolerance is the largest such residual and
\* aberth_mt's is 0, so aberth_mt's is never the larger.
C8_PassToleranceUpToConverged ==
  (pc = "check" /\ ValidInput) =>
    /\ tol = IF op = "aberth" THEN SeqTolOf ELSE MtTolOf
    /\ MtTolOf <= SeqTolOf
    /\ SomeResidualNotBelowMicro => SeqTolOf = MtTolOf
    /\ ~SomeResidualNotBelowMicro =>
         (MtTolOf = 0 /\ SeqTolOf = LargestBelowMicro)
    /\ \A t \in TolVals :
         Stop(MtTolOf, [opts EXCEPT !.tol = t])
           \/ ~Stop(SeqTolOf, [opts EXCEPT !.tol = t])

\* C8 witness: a pass in which one root fell below the micro-tolerance with
\* a non-zero residual and another root stayed above it.
C8_Witness ==
  /\ pc = "check" /\ ValidInput /\ SomeResidualNotBelowMicro
  /\ \E i \in Evaluated : resid[i] = 1
  /\ SeqTolOf = MtTolOf /\ SeqTolOf >= MICRO_TOL

\* C9: in a pass of aberth the roots are processed in ascending order and
\* in place: when index idx is next, every root from idx on holds the value
\* of the previous pass, and every root below idx that was not converged
\* holds the correction computed from the values written in this pass below
\* it and the previous pass's values above it.
C9_GaussSeidelOrder ==
  (op = "aberth" /\ ValidInput /\ pc \in {"job", "update"}) =>
    /\ idx \in 1 .. m_rs + 1
    /\ \A j \in 1 .. m_rs :
         IF j >= idx THEN zs[j] = zsPrev[j] ELSE zs[j] = GaussSeidelRoot(j)
    /\ Evaluated = {j \in 1 .. m_rs : ~convPrev[j] /\
                      (j < idx \/ (j = idx /\ pc = "update"))}

\* C9 witness: the third root is next, the first two were corrected in this
\* pass, and the second one's correction depends on the first one's.
C9_Witness ==
  /\ op = "aberth" /\ ValidInput /\ pc = "job" /\ idx = 3 /\ m_rs = 3
  /\ ~convPrev[1] /\ ~convPrev[2] /\ zs[1] # zsPrev[1]
  /\ zs[2] # NewRoot(coeffs, pb, zsPrev[2], zsPrev, 2)

\* The formal derivative of the polynomial cs at z: the sum of
\* (n-1-i) * c[i] * z^(n-2-i) over the terms of positive degree.
RECURSIVE FormalDerivative(_, _, _)
FormalDerivative(cs, z, k) ==
  IF k = 0 THEN C(0, 0)
  ELSE CAdd(FormalDerivative(cs, z, k - 1),
            CMul(C((Len(cs) - k) * cs[k], 0), CPow(z, Len(cs) - k - 1)))

\* C10: from the entry of an iterator on, pb has length degree with
\* pb[i] = coeffs[i] * (degree - i), and its Horner value at any point is
\* the formal derivative of coeffs there.
C10_DerivativeCoefficients ==
  (Iterating /\ ValidInput /\ pc # "start") =>
    /\ Len(pb) = degree
    /\ \A i \in 0 .. degree - 1 : pb[i + 1] = coeffs[i + 1] * (degree - i)
    /\ pc = "loop" =>
         \A z \in ComplexPoints :
           horner_eval_c(pb, z) = FormalDerivative(coeffs, z, degree)

\* C10 witness: a cubic's derivative coefficients at the start of the
\* second pass.
C10_Witness ==
  /\ Iterating /\ ValidInput /\ pc = "loop" /\ niter = 1
  /\ coeffs = << 1, -2, 1, 0 >> /\ pb = << 3, -4, 1 >>

============================================================================
